---- MODULE Spec2Model ----
(***************************************************************************)
(* Model of the GCP machine reconciler                                     *)
(* (pkg/cloud/gcp/actuators/machine/reconciler.go).                        *)
(*                                                                         *)
(* One reconciler invocation (create, exists, update, delete) runs at a    *)
(* time; pc is its position, one step per provider call.  The provider,    *)
(* the secret store and the select between ticker and deadline timer       *)
(* inside wait.Poll are the environment: their answers are drawn           *)
(* nondeterministically.  Time is counted in seconds; a provider call is   *)
(* taken to complete within one poll interval.                             *)
(***************************************************************************)
EXTENDS Integers, Sequences, FiniteSets, TLC

VARIABLES
    pc,          \* position of the running invocation, "idle" between invocations
    op,          \* the reconciler operation running (or last finished), "none" if none ran
    status,      \* machine.Status.Addresses, providerStatus, machine.Spec.ProviderID
    ret,         \* the invocation's return value
    existsRet,   \* the return value of exists(), also when called by delete()
    calls,       \* calls issued by the body of this invocation, per callee
    events,      \* events recorded by this invocation
    poll,        \* state of wait.Poll and of the closure it drives
    pollRet,     \* the (op, err) pair waitUntilOperationCompleted returned
    answers,     \* the errors ZonesGet, InstancesGet and InstancesInsert or InstancesDelete
                 \* last answered in this invocation, and what the secret lookup answered
    lastSeen,    \* the instance the last successful refresh read
    refreshErr,  \* what reconcileMachineWithCloudState last returned
    streak,      \* successful update() invocations in a row that read the same instance
    providerSpec,\* the provider spec create() built its instance descriptor from
    instance,    \* the instance descriptor create() is about to hand to InstancesInsert
    scope        \* the actuator's machine scope: entry point, construction error, Close() calls

vars == <<pc, op, status, ret, existsRet, calls, events, poll, pollRet,
          answers, lastSeen, refreshErr, streak, providerSpec, instance, scope>>

-----------------------------------------------------------------------------
(* Program constants *)

operationTimeOut == 180
operationRetryWait == 5
userDataSecretKey == "userData"
scopeFailFmt == "failed to create scope for machine %q: %v"
createEventAction == "Create"

(* Bounds of the model *)

MaxNics == 2
MaxAccessConfigs == 2
MaxOpErrors == 2
MaxDisks == 2
MaxSpecInterfaces == 1
MaxMetadata == 2

-----------------------------------------------------------------------------
(* Errors.  Nil is the nil error; a *googleapi.Error carries its HTTP     *)
(* code; any other error type is "other"; fmt.Errorf builds a new plain   *)
(* error from a format and its arguments.                                 *)

Nil == [kind |-> "nil"]
GoogleAPIError(code) == [kind |-> "googleapi", code |-> code]
OtherError == [kind |-> "other", code |-> 404]
Errorf(format, args) == [kind |-> "errorf", format |-> format, args |-> args]
ErrWaitTimeout == [kind |-> "ErrWaitTimeout"]

ProviderErrors == {GoogleAPIError(404), GoogleAPIError(500), OtherError}

-----------------------------------------------------------------------------
(* The provider's data *)

InternalIPs == {"10.0.0.15"}
NatIPs == {"35.243.147.143", "35.243.147.144"}
InstanceStatuses == {"RUNNING", "TERMINATED"}
machineName == "testInstance"
providerID == "gce://testProject/us-east1-b/testInstance"

SeqsUpTo(S, n) == UNION {[1..k -> S] : k \in 0..n}

\* compute.AccessConfig, of which the code reads NatIP
AccessConfigs == [NatIP : NatIPs]

\* compute.NetworkInterface, of which the code reads NetworkIP and AccessConfigs
FirstInterfaces ==
    [NetworkIP : InternalIPs, AccessConfigs : SeqsUpTo(AccessConfigs, MaxAccessConfigs)]
OtherInterface ==
    [NetworkIP |-> "10.0.1.99", AccessConfigs |-> <<[NatIP |-> "35.243.147.199"]>>]

InterfaceLists ==
    {<<>>} \cup
    {<<first>> \o [i \in 1..k |-> OtherInterface] :
        first \in FirstInterfaces, k \in 0..(MaxNics - 1)}

\* compute.Instance, of which the code reads Name, Status and NetworkInterfaces
Instances ==
    [Name : {machineName}, Status : InstanceStatuses, NetworkInterfaces : InterfaceLists]

NoInstance == [Name |-> "", Status |-> "", NetworkInterfaces |-> <<>>]

\* What InstancesGet and ZonesGet can answer
InstancesGetResults ==
    {[instance |-> i, err |-> Nil] : i \in Instances} \cup
    {[instance |-> NoInstance, err |-> e] : e \in ProviderErrors}
ZonesGetResults == {Nil} \cup ProviderErrors

\* compute.Operation: Status, and Error (nil, or the list of reported errors)
OpErrorMessages == {"QUOTA_EXCEEDED", "ZONE_RESOURCE_POOL_EXHAUSTED"}
NilOp == [Status |-> "", hasError |-> FALSE, Errors |-> <<>>]
RunningOps == {[Status |-> s, hasError |-> FALSE, Errors |-> <<>>] : s \in {"PENDING", "RUNNING"}}
DoneOps ==
    {[Status |-> "DONE", hasError |-> FALSE, Errors |-> <<>>]} \cup
    {[Status |-> "DONE", hasError |-> TRUE, Errors |-> es] :
        es \in SeqsUpTo(OpErrorMessages, MaxOpErrors)}
Operations == RunningOps \cup DoneOps

\* What ZoneOperationsGet, InstancesInsert and InstancesDelete can answer
ZoneOperationsGetResults ==
    {[op |-> o, err |-> Nil] : o \in Operations} \cup
    {[op |-> NilOp, err |-> e] : e \in ProviderErrors}
SubmitResults == {Nil} \cup ProviderErrors

\* The user data secret: no reference in the spec, a failing lookup, a secret
\* without the userData key, or a secret holding data
SecretData == {"", "ignition"}
SecretCases ==
    {[ref |-> FALSE, err |-> Nil, hasKey |-> FALSE, data |-> ""]} \cup
    {[ref |-> TRUE, err |-> OtherError, hasKey |-> FALSE, data |-> ""]} \cup
    {[ref |-> TRUE, err |-> Nil, hasKey |-> FALSE, data |-> ""]} \cup
    {[ref |-> TRUE, err |-> Nil, hasKey |-> TRUE, data |-> d] : d \in SecretData}

\* The provider spec, of which the descriptor of the instance is built: disks
\* (boot disk, data disk), network interfaces (by network, by subnetwork),
\* metadata pairs (one of them under the key create() itself uses) and whether
\* a user data secret is referenced
projectID == "testProject"
region == "us-east1"
DiskSpecs ==
    {[Boot |-> TRUE, AutoDelete |-> FALSE, Image |-> "rhcos"],
     [Boot |-> FALSE, AutoDelete |-> TRUE, Image |-> "scratch"]}
NetworkInterfaceSpecs ==
    {[Network |-> "default", Subnetwork |-> ""],
     [Network |-> "", Subnetwork |-> "worker-subnet"]}
MetadataSpecs ==
    {[Key |-> "user-data", Value |-> <<"mine">>], [Key |-> "role", Value |-> <<"worker">>]}
ProviderSpecs ==
    [Disks : SeqsUpTo(DiskSpecs, MaxDisks),
     NetworkInterfaces : SeqsUpTo(NetworkInterfaceSpecs, MaxSpecInterfaces),
     Metadata : SeqsUpTo(MetadataSpecs, MaxMetadata),
     UserDataSecret : BOOLEAN]

-----------------------------------------------------------------------------
(* Pure functions of the reconciler *)

\* validateMachine: no check is implemented, it returns nil
validateMachine == Nil

isNotFoundErrorAnyType(err) == err.code = 404

\* isNotFoundError: a *googleapi.Error with code 404, no other error
isNotFoundError(err) ==
    IF err.kind = "googleapi" THEN err.code = 404 ELSE FALSE

\* base64.StdEncoding.EncodeToString, kept symbolic; no data encodes to the
\* empty string
Base64(data) == IF data = "" THEN "" ELSE "base64:" \o data

getCustomUserDataIgnoresMissingKey(secret) ==
    IF ~secret.ref THEN [userData |-> "", err |-> Nil]
    ELSE IF secret.err # Nil
    THEN [userData |-> "", err |-> Errorf("error getting user data secret", <<secret.err>>)]
    ELSE [userData |-> Base64(secret.data), err |-> Nil]

\* getCustomUserData
getCustomUserData(secret) ==
    IF ~secret.ref THEN [userData |-> "", err |-> Nil]
    ELSE IF secret.err # Nil
    THEN [userData |-> "", err |-> Errorf("error getting user data secret", <<secret.err>>)]
    ELSE IF ~secret.hasKey
    THEN [userData |-> "", err |-> Errorf("secret does not have field set", <<userDataSecretKey>>)]
    ELSE [userData |-> Base64(secret.data), err |-> Nil]

attachedDisksBootFirst(disks) ==
    [i \in 1..Len(disks) |->
        [AutoDelete |-> disks[i].AutoDelete,
         Boot |-> (i = 1),
         InitializeParams |-> [SourceImage |-> disks[i].Image]]]

\* create(): the attached disks of the descriptor
attachedDisks(disks) ==
    [i \in 1..Len(disks) |->
        [AutoDelete |-> disks[i].AutoDelete,
         Boot |-> disks[i].Boot,
         InitializeParams |-> [SourceImage |-> disks[i].Image]]]

\* compute.AccessConfig{}
DefaultAccessConfig == [NatIP |-> ""]

\* create(): the network interfaces of the descriptor
computeNetworkInterfaces(nics) ==
    [i \in 1..Len(nics) |->
        [AccessConfigs |-> <<DefaultAccessConfig>>,
         Network |-> IF nics[i].Network # ""
                     THEN "projects/" \o projectID \o "/global/networks/" \o nics[i].Network
                     ELSE "",
         Subnetwork |-> IF nics[i].Subnetwork # ""
                        THEN "regions/" \o region \o "/subnetworks/" \o nics[i].Subnetwork
                        ELSE ""]]

metadataItemsOmitsEmptyUserData(metadata, userData) ==
    (IF userData = "" THEN <<>> ELSE <<[Key |-> "user-data", Value |-> <<userData>>]>>) \o
    [i \in 1..Len(metadata) |-> [Key |-> metadata[i].Key, Value |-> metadata[i].Value]]

\* create(): the metadata items of the descriptor
metadataItems(metadata, userData) ==
    <<[Key |-> "user-data", Value |-> <<userData>>]>> \o
    [i \in 1..Len(metadata) |-> [Key |-> metadata[i].Key, Value |-> metadata[i].Value]]

\* create(): the compute.Instance handed to InstancesInsert
instanceDescriptor(spec, userData) ==
    [Name |-> machineName,
     Disks |-> attachedDisks(spec.Disks),
     NetworkInterfaces |-> computeNetworkInterfaces(spec.NetworkInterfaces),
     Metadata |-> [Items |-> metadataItems(spec.Metadata, userData)]]

\* v1.NodeAddress
NodeAddress(type, address) == [Type |-> type, Address |-> address]

\* The status fields the reconciler writes
NoStatus ==
    [Addresses |-> <<>>, InstanceState |-> <<>>, InstanceID |-> <<>>, ProviderID |-> <<>>]

nodeAddressesReversed(networkInterface) ==
    <<NodeAddress("InternalIP", networkInterface.NetworkIP)>> \o
    [i \in 1..Len(networkInterface.AccessConfigs) |->
        NodeAddress("ExternalIP",
            networkInterface.AccessConfigs[Len(networkInterface.AccessConfigs) + 1 - i].NatIP)]

\* the address list built from the first network interface
nodeAddresses(networkInterface) ==
    <<NodeAddress("InternalIP", networkInterface.NetworkIP)>> \o
    [i \in 1..Len(networkInterface.AccessConfigs) |->
        NodeAddress("ExternalIP", networkInterface.AccessConfigs[i].NatIP)]

reconcileZeroOnError(old, got) ==
    IF got.err # Nil \/ Len(got.instance.NetworkInterfaces) < 1
    THEN [status |-> [Addresses |-> <<>>, InstanceState |-> <<>>, InstanceID |-> <<>>,
                      ProviderID |-> <<>>],
          err |-> Errorf("refresh failed", <<got.err>>)]
    ELSE [status |->
            [Addresses |-> nodeAddresses(got.instance.NetworkInterfaces[1]),
             InstanceState |-> <<got.instance.Status>>,
             InstanceID |-> <<got.instance.Name>>,
             ProviderID |-> <<providerID>>],
          err |-> Nil]

reconcileAppendBug(old, got) ==
    IF got.err # Nil \/ Len(got.instance.NetworkInterfaces) < 1
    THEN [status |-> old, err |-> Errorf("refresh failed", <<got.err>>)]
    ELSE [status |->
            [Addresses |-> old.Addresses \o nodeAddresses(got.instance.NetworkInterfaces[1]),
             InstanceState |-> <<got.instance.Status>>,
             InstanceID |-> <<got.instance.Name>>,
             ProviderID |-> <<providerID>>],
          err |-> Nil]

reconcileKeepsFirstState(old, got) ==
    IF got.err # Nil
    THEN [status |-> old,
          err |-> Errorf("failed to get instance via compute service", <<got.err>>)]
    ELSE IF Len(got.instance.NetworkInterfaces) < 1
    THEN [status |-> old,
          err |-> Errorf("could not find network interfaces for instance",
                         <<got.instance.Name>>)]
    ELSE [status |->
            [Addresses |-> nodeAddresses(got.instance.NetworkInterfaces[1]),
             InstanceState |-> IF old.InstanceState = <<>> THEN <<got.instance.Status>>
                               ELSE old.InstanceState,
             InstanceID |-> <<got.instance.Name>>,
             ProviderID |-> <<providerID>>],
          err |-> Nil]

reconcileAcceptsNoInterface(old, got) ==
    IF got.err # Nil
    THEN [status |-> old,
          err |-> Errorf("failed to get instance via compute service", <<got.err>>)]
    ELSE [status |->
            [Addresses |-> IF Len(got.instance.NetworkInterfaces) < 1 THEN <<>>
                           ELSE nodeAddresses(got.instance.NetworkInterfaces[1]),
             InstanceState |-> <<got.instance.Status>>,
             InstanceID |-> <<got.instance.Name>>,
             ProviderID |-> <<providerID>>],
          err |-> Nil]

\* reconcileMachineWithCloudState, given what InstancesGet answered: the
\* status afterwards and the error returned.  Pointers are one-element tuples.
reconcileMachineWithCloudState(old, got) ==
    IF got.err # Nil
    THEN [status |-> old,
          err |-> Errorf("failed to get instance via compute service", <<got.err>>)]
    ELSE IF Len(got.instance.NetworkInterfaces) < 1
    THEN [status |-> old,
          err |-> Errorf("could not find network interfaces for instance",
                         <<got.instance.Name>>)]
    ELSE [status |->
            [Addresses |-> nodeAddresses(got.instance.NetworkInterfaces[1]),
             InstanceState |-> <<got.instance.Status>>,
             InstanceID |-> <<got.instance.Name>>,
             ProviderID |-> <<providerID>>],
          err |-> Nil]

pollConditionAnyStatus(fetch) ==
    IF fetch.err # Nil THEN [done |-> FALSE, err |-> fetch.err]
    ELSE IF ~fetch.op.hasError THEN [done |-> TRUE, err |-> Nil]
    ELSE [done |-> FALSE,
          err |-> Errorf("the following errors occurred",
                         [i \in 1..Len(fetch.op.Errors) |->
                             Errorf("%s", <<fetch.op.Errors[i]>>)])]

pollConditionFirstErrorOnly(fetch) ==
    IF fetch.err # Nil THEN [done |-> FALSE, err |-> fetch.err]
    ELSE IF fetch.op.Status = "DONE"
    THEN IF ~fetch.op.hasError
         THEN [done |-> TRUE, err |-> Nil]
         ELSE [done |-> FALSE,
               err |-> Errorf("the following errors occurred",
                              [i \in 1..(IF Len(fetch.op.Errors) > 0 THEN 1 ELSE 0) |->
                                  Errorf("%s", <<fetch.op.Errors[i]>>)])]
    ELSE [done |-> FALSE, err |-> Nil]

\* The closure waitUntilOperationCompleted hands to wait.Poll, given what
\* ZoneOperationsGet answered: (done, err)
pollCondition(fetch) ==
    IF fetch.err # Nil THEN [done |-> FALSE, err |-> fetch.err]
    ELSE IF fetch.op.Status = "DONE"
    THEN IF ~fetch.op.hasError
         THEN [done |-> TRUE, err |-> Nil]
         ELSE [done |-> FALSE,
               err |-> Errorf("the following errors occurred",
                              [i \in 1..Len(fetch.op.Errors) |->
                                  Errorf("%s", <<fetch.op.Errors[i]>>)])]
    ELSE [done |-> FALSE, err |-> Nil]

waitForIgnoresClose(open, cond) ==
    IF cond.err # Nil THEN [over |-> TRUE, err |-> cond.err]
    ELSE IF cond.done THEN [over |-> TRUE, err |-> Nil]
    ELSE [over |-> FALSE, err |-> Nil]

\* One turn of wait.WaitFor's loop after the condition ran: the condition's
\* error ends the wait, then its success, then the closed channel
\* (ErrWaitTimeout); otherwise the loop goes on.
waitFor(open, cond) ==
    IF cond.err # Nil THEN [over |-> TRUE, err |-> cond.err]
    ELSE IF cond.done THEN [over |-> TRUE, err |-> Nil]
    ELSE IF ~open THEN [over |-> TRUE, err |-> ErrWaitTimeout]
    ELSE [over |-> FALSE, err |-> Nil]

\* exists(), after ZonesGet failed and after InstancesGet answered
existsZoneFailed(zoneErr) ==
    [exists |-> FALSE,
     err |-> Errorf("unable to verify project/zone exists", <<zoneErr>>)]
existsInstance(got) ==
    IF got.err = Nil THEN [exists |-> TRUE, err |-> Nil]
    ELSE IF isNotFoundError(got.err) THEN [exists |-> FALSE, err |-> Nil]
    ELSE [exists |-> FALSE, err |-> Errorf("error getting running instances", <<got.err>>)]

-----------------------------------------------------------------------------
(* State *)

CallNames == {"SecretGet", "ZonesGet", "InstancesGet", "InstancesInsert",
              "InstancesDelete", "waitUntilOperationCompleted"}
NoCalls == [c \in CallNames |-> 0]
Called(c) == [calls EXCEPT ![c] = @ + 1]

NoRet == [returned |-> FALSE, exists |-> FALSE, err |-> Nil]
NoExistsRet == [exists |-> FALSE, err |-> Nil]
NoPoll == [elapsed |-> 0, op |-> NilOp, err |-> Nil, fetches |-> 0, nonTerminal |-> 0,
           lastFetchAt |-> 0, uneven |-> {}]
NoPollRet == [op |-> NilOp, err |-> Nil]
Unasked == [kind |-> "unasked"]
NoAnswers == [zone |-> Unasked, get |-> Unasked, secret |-> Unasked, submit |-> Unasked]
NoSpec == [Disks |-> <<>>, NetworkInterfaces |-> <<>>, Metadata |-> <<>>,
           UserDataSecret |-> FALSE]
NoDescriptor == [Name |-> "", Disks |-> <<>>, NetworkInterfaces |-> <<>>,
                 Metadata |-> [Items |-> <<>>]]

\* What newMachineScope can answer
newMachineScopeResults == {Nil, OtherError}
NoScope == [entry |-> "none", err |-> Nil, closed |-> 0]

Init ==
    /\ pc = "idle"
    /\ op = "none"
    /\ status = NoStatus
    /\ ret = NoRet
    /\ existsRet = NoExistsRet
    /\ calls = NoCalls
    /\ events = <<>>
    /\ poll = NoPoll
    /\ pollRet = NoPollRet
    /\ lastSeen = NoInstance
    /\ refreshErr = Nil
    /\ answers = NoAnswers
    /\ streak = 0
    /\ providerSpec = NoSpec
    /\ instance = NoDescriptor
    /\ scope = NoScope

\* An actuator entry point is called: newMachineScope, and if that succeeded
\* newReconciler(scope, recorder).<operation>()
Begin(operation, first) ==
    /\ pc = "idle"
    /\ \E err \in newMachineScopeResults :
        /\ scope' = [entry |-> operation, err |-> err, closed |-> 0]
        /\ IF err # Nil
           THEN /\ pc' = "idle"
                /\ op' = "none"
                /\ ret' = [returned |-> TRUE, exists |-> FALSE,
                           err |-> Errorf(scopeFailFmt, <<machineName, err>>)]
                /\ streak' = 0
           ELSE /\ pc' = first
                /\ op' = operation
                /\ ret' = NoRet
                /\ streak' = IF operation = "update" THEN streak ELSE 0
    /\ existsRet' = NoExistsRet
    /\ calls' = NoCalls
    /\ events' = <<>>
    /\ poll' = NoPoll
    /\ pollRet' = NoPollRet
    /\ refreshErr' = Nil
    /\ answers' = NoAnswers
    /\ UNCHANGED <<status, lastSeen, providerSpec, instance>>

\* A reconciler operation returns to the actuator, which returns its result
Return(value) ==
    /\ pc' = "idle"
    /\ ret' = [value EXCEPT !.returned = TRUE]

\* defer scope.Close() of Actuator.Create and Actuator.Update
Close == scope' = [scope EXCEPT !.closed = @ + 1]

-----------------------------------------------------------------------------
(* wait.Poll(operationRetryWait, operationTimeOut, condition) *)

\* The condition runs at time now; open is whether the poller's channel
\* delivered a tick (TRUE) or was found closed (FALSE).  When the wait is
\* over, waitUntilOperationCompleted returns op and the wait's error; the
\* operand op of that return statement is read either before the call of
\* wait.Poll (nil) or after it (the last operation fetched): Go leaves the
\* order open.
PollFetch(open, now) ==
    \E fetch \in ZoneOperationsGetResults :
        LET w == waitFor(open, pollCondition(fetch))
            n == poll.fetches + 1
        IN  /\ poll' = [elapsed |-> now,
                        op |-> fetch.op,
                        err |-> fetch.err,
                        fetches |-> n,
                        nonTerminal |-> poll.nonTerminal +
                            (IF fetch.err = Nil /\ fetch.op.Status # "DONE" THEN 1 ELSE 0),
                        lastFetchAt |-> now,
                        uneven |-> poll.uneven \cup
                            (IF now - poll.lastFetchAt # operationRetryWait
                             THEN {n} ELSE {})]
            /\ IF w.over
               THEN /\ pc' = "polled"
                    /\ \E o \in {NilOp, fetch.op} : pollRet' = [op |-> o, err |-> w.err]
               ELSE /\ pc' = "poll"
                    /\ UNCHANGED pollRet
            /\ UNCHANGED <<op, status, ret, existsRet, calls, events, answers, lastSeen, refreshErr, streak, providerSpec, instance, scope>>

\* The ticker fires (every operationRetryWait, up to the deadline)
PollTick ==
    /\ pc = "poll"
    /\ poll.elapsed + operationRetryWait <= operationTimeOut
    /\ PollFetch(TRUE, poll.elapsed + operationRetryWait)

\* The deadline timer fires before the next tick is delivered: the channel
\* is closed and the condition runs once more
PollTimeout ==
    /\ pc = "poll"
    /\ poll.elapsed + operationRetryWait >= operationTimeOut
    /\ PollFetch(FALSE, operationTimeOut)

-----------------------------------------------------------------------------
(* create() *)

BeginCreate == Begin("create", "create_validate")

\* validateMachine, the instance descriptor, getCustomUserData
CreateValidate ==
    /\ pc = "create_validate"
    /\ IF validateMachine # Nil
       THEN /\ events' = Append(events, [type |-> "Warning",
                                         reason |-> "Failed" \o createEventAction])
            /\ ret' = [ret EXCEPT !.err = [kind |-> "InvalidMachineConfiguration"]]
            /\ pc' = "create_deferred"
            /\ UNCHANGED <<calls, answers, providerSpec, instance>>
       ELSE \E spec \in ProviderSpecs, secret \in SecretCases :
            LET u == getCustomUserData(secret)
            IN  /\ secret.ref = spec.UserDataSecret
                /\ calls' = IF secret.ref THEN Called("SecretGet") ELSE calls
                /\ answers' = IF secret.ref
                              THEN [answers EXCEPT !.secret = [err |-> secret.err,
                                                               hasKey |-> secret.hasKey]]
                              ELSE answers
                /\ IF u.err # Nil
                   THEN /\ ret' = [ret EXCEPT !.err =
                                Errorf("error getting custom user data", <<u.err>>)]
                        /\ pc' = "create_deferred"
                        /\ UNCHANGED <<providerSpec, instance>>
                   ELSE /\ pc' = "create_insert"
                        /\ providerSpec' = spec
                        /\ instance' = instanceDescriptor(spec, u.userData)
                        /\ UNCHANGED ret
                /\ UNCHANGED events
    /\ UNCHANGED <<op, status, existsRet, poll, pollRet, lastSeen, refreshErr, streak, scope>>

\* InstancesInsert(projectID, zone, instance); the descriptor is not read again
CreateInsert ==
    /\ pc = "create_insert"
    /\ \E err \in SubmitResults :
        /\ IF err # Nil
           THEN /\ calls' = Called("InstancesInsert")
                /\ ret' = [ret EXCEPT !.err =
                        Errorf("failed to create instance via compute service", <<err>>)]
                /\ pc' = "create_deferred"
           ELSE /\ calls' = [calls EXCEPT !["InstancesInsert"] = @ + 1,
                                          !["waitUntilOperationCompleted"] = @ + 1]
                /\ pc' = "poll"
                /\ UNCHANGED ret
        /\ answers' = [answers EXCEPT !.submit = err]
    /\ providerSpec' = NoSpec
    /\ instance' = NoDescriptor
    /\ UNCHANGED <<op, status, existsRet, events, poll, pollRet, lastSeen, refreshErr, streak, scope>>

CreatePolledAlwaysEmits ==
    /\ pc = "polled"
    /\ op = "create"
    /\ IF pollRet.err # Nil
       THEN ret' = [ret EXCEPT !.err =
                    Errorf("failed to wait for create operation via compute service",
                           <<pollRet.op, pollRet.err>>)]
       ELSE UNCHANGED ret
    /\ events' = Append(events, [type |-> "Normal", reason |-> "Created"])
    /\ pc' = "create_deferred"
    /\ poll' = NoPoll
    /\ UNCHANGED <<op, status, existsRet, calls, pollRet, answers, lastSeen, refreshErr, streak, providerSpec, instance, scope>>

\* waitUntilOperationCompleted returned; the poller's locals go out of scope
CreatePolled ==
    /\ pc = "polled"
    /\ op = "create"
    /\ IF pollRet.err # Nil
       THEN /\ ret' = [ret EXCEPT !.err =
                    Errorf("failed to wait for create operation via compute service",
                           <<pollRet.op, pollRet.err>>)]
            /\ UNCHANGED events
       ELSE /\ events' = Append(events, [type |-> "Normal", reason |-> "Created"])
            /\ UNCHANGED ret
    /\ pc' = "create_deferred"
    /\ poll' = NoPoll
    /\ UNCHANGED <<op, status, existsRet, calls, pollRet, answers, lastSeen, refreshErr, streak, providerSpec, instance, scope>>

\* A status refresh: InstancesGet and reconcileMachineWithCloudState
Refresh(got) ==
    LET r == reconcileMachineWithCloudState(status, got)
    IN  /\ calls' = Called("InstancesGet")
        /\ status' = r.status
        /\ refreshErr' = r.err
        /\ answers' = [answers EXCEPT !.get = got.err]
        /\ lastSeen' = IF r.err = Nil THEN got.instance ELSE lastSeen
        /\ streak' = IF op = "update" /\ r.err = Nil
                      THEN IF got.instance = lastSeen /\ streak > 0 THEN 2 ELSE 1
                      ELSE 0

CreateDeferredPropagates ==
    /\ pc = "create_deferred"
    /\ \E got \in InstancesGetResults :
        /\ Refresh(got)
        /\ Return(IF ret.err = Nil
                  THEN [ret EXCEPT !.err = reconcileMachineWithCloudState(status, got).err]
                  ELSE ret)
    /\ Close
    /\ UNCHANGED <<op, existsRet, events, poll, pollRet, providerSpec, instance>>

\* defer r.reconcileMachineWithCloudState(): runs on every return of
\* create(), its result is dropped
CreateDeferred ==
    /\ pc = "create_deferred"
    /\ \E got \in InstancesGetResults : Refresh(got)
    /\ Return(ret)
    /\ Close
    /\ UNCHANGED <<op, existsRet, events, poll, pollRet, providerSpec, instance>>

-----------------------------------------------------------------------------
(* update() *)

BeginUpdate == Begin("update", "update_refresh")

UpdateRefresh ==
    /\ pc = "update_refresh"
    /\ \E got \in InstancesGetResults :
        /\ Refresh(got)
        /\ Return([ret EXCEPT !.err = reconcileMachineWithCloudState(status, got).err])
    /\ Close
    /\ UNCHANGED <<op, existsRet, events, poll, pollRet, providerSpec, instance>>

-----------------------------------------------------------------------------
(* exists() and delete() *)

BeginExists == Begin("exists", "exists_zone")
BeginDelete == Begin("delete", "exists_zone")

ExistsZoneNotFoundIsAbsent ==
    /\ pc = "exists_zone"
    /\ IF validateMachine # Nil
       THEN /\ existsRet' = [exists |-> FALSE,
                             err |-> Errorf("failed validating machine provider spec",
                                            <<validateMachine>>)]
            /\ pc' = "exists_done"
            /\ UNCHANGED <<calls, answers>>
       ELSE \E zoneErr \in ZonesGetResults :
            /\ calls' = Called("ZonesGet")
            /\ answers' = [answers EXCEPT !.zone = zoneErr]
            /\ IF zoneErr # Nil
               THEN /\ existsRet' = IF isNotFoundError(zoneErr)
                                     THEN [exists |-> FALSE, err |-> Nil]
                                     ELSE existsZoneFailed(zoneErr)
                    /\ pc' = "exists_done"
               ELSE /\ pc' = "exists_get"
                    /\ UNCHANGED existsRet
    /\ UNCHANGED <<op, status, ret, events, poll, pollRet, lastSeen, refreshErr, streak, providerSpec, instance, scope>>

\* validateMachine, then validateZone (ZonesGet)
ExistsZone ==
    /\ pc = "exists_zone"
    /\ IF validateMachine # Nil
       THEN /\ existsRet' = [exists |-> FALSE,
                             err |-> Errorf("failed validating machine provider spec",
                                            <<validateMachine>>)]
            /\ pc' = "exists_done"
            /\ UNCHANGED <<calls, answers>>
       ELSE \E zoneErr \in ZonesGetResults :
            /\ calls' = Called("ZonesGet")
            /\ answers' = [answers EXCEPT !.zone = zoneErr]
            /\ IF zoneErr # Nil
               THEN /\ existsRet' = existsZoneFailed(zoneErr)
                    /\ pc' = "exists_done"
               ELSE /\ pc' = "exists_get"
                    /\ UNCHANGED existsRet
    /\ UNCHANGED <<op, status, ret, events, poll, pollRet, lastSeen, refreshErr, streak, providerSpec, instance, scope>>

\* InstancesGet
ExistsGet ==
    /\ pc = "exists_get"
    /\ \E got \in InstancesGetResults :
        /\ calls' = Called("InstancesGet")
        /\ answers' = [answers EXCEPT !.get = got.err]
        /\ existsRet' = existsInstance(got)
    /\ pc' = "exists_done"
    /\ UNCHANGED <<op, status, ret, events, poll, pollRet, lastSeen, refreshErr, streak, providerSpec, instance, scope>>

ExistsReturnCloses ==
    /\ pc = "exists_done"
    /\ op = "exists"
    /\ Return([ret EXCEPT !.exists = existsRet.exists, !.err = existsRet.err])
    /\ Close
    /\ UNCHANGED <<op, status, existsRet, calls, events, poll, pollRet, answers, lastSeen, refreshErr, streak, providerSpec, instance>>

\* exists() returns to the actuator
ExistsReturn ==
    /\ pc = "exists_done"
    /\ op = "exists"
    /\ Return([ret EXCEPT !.exists = existsRet.exists, !.err = existsRet.err])
    /\ UNCHANGED <<op, status, existsRet, calls, events, poll, pollRet, answers, lastSeen, refreshErr, streak, providerSpec, instance, scope>>

DeleteExistsNoCheck ==
    /\ pc = "exists_done"
    /\ op = "delete"
    /\ IF existsRet.err # Nil
       THEN Return([ret EXCEPT !.err = existsRet.err])
       ELSE /\ pc' = "delete_submit"
            /\ UNCHANGED ret
    /\ UNCHANGED <<op, status, existsRet, calls, events, poll, pollRet, answers, lastSeen, refreshErr, streak, providerSpec, instance, scope>>

\* exists() returns to delete()
DeleteExists ==
    /\ pc = "exists_done"
    /\ op = "delete"
    /\ IF existsRet.err # Nil
       THEN Return([ret EXCEPT !.err = existsRet.err])
       ELSE IF ~existsRet.exists
       THEN Return(ret)
       ELSE /\ pc' = "delete_submit"
            /\ UNCHANGED ret
    /\ UNCHANGED <<op, status, existsRet, calls, events, poll, pollRet, answers, lastSeen, refreshErr, streak, providerSpec, instance, scope>>

DeleteSubmitRetries ==
    /\ pc = "delete_submit"
    /\ \E err \in SubmitResults :
        /\ IF err # Nil
           THEN /\ calls' = [calls EXCEPT !["InstancesDelete"] = @ + 2]
                /\ Return([ret EXCEPT !.err =
                        Errorf("failed to delete instance via compute service", <<err>>)])
           ELSE /\ calls' = [calls EXCEPT !["InstancesDelete"] = @ + 1,
                                          !["waitUntilOperationCompleted"] = @ + 1]
                /\ pc' = "poll"
                /\ UNCHANGED ret
        /\ answers' = [answers EXCEPT !.submit = err]
    /\ UNCHANGED <<op, status, existsRet, events, poll, pollRet, lastSeen, refreshErr, streak, providerSpec, instance, scope>>

\* InstancesDelete
DeleteSubmit ==
    /\ pc = "delete_submit"
    /\ \E err \in SubmitResults :
        /\ IF err # Nil
           THEN /\ calls' = Called("InstancesDelete")
                /\ Return([ret EXCEPT !.err =
                        Errorf("failed to delete instance via compute service", <<err>>)])
           ELSE /\ calls' = [calls EXCEPT !["InstancesDelete"] = @ + 1,
                                          !["waitUntilOperationCompleted"] = @ + 1]
                /\ pc' = "poll"
                /\ UNCHANGED ret
        /\ answers' = [answers EXCEPT !.submit = err]
    /\ UNCHANGED <<op, status, existsRet, events, poll, pollRet, lastSeen, refreshErr, streak, providerSpec, instance, scope>>

DeletePolledSwallows ==
    /\ pc = "polled"
    /\ op = "delete"
    /\ Return(ret)
    /\ poll' = NoPoll
    /\ UNCHANGED <<op, status, existsRet, calls, events, pollRet, answers, lastSeen, refreshErr, streak, providerSpec, instance, scope>>

\* waitUntilOperationCompleted returned
DeletePolled ==
    /\ pc = "polled"
    /\ op = "delete"
    /\ IF pollRet.err # Nil
       THEN Return([ret EXCEPT !.err =
                Errorf("failed to wait for delete operation via compute service",
                       <<pollRet.op, pollRet.err>>)])
       ELSE Return(ret)
    /\ poll' = NoPoll
    /\ UNCHANGED <<op, status, existsRet, calls, events, pollRet, answers, lastSeen, refreshErr, streak, providerSpec, instance, scope>>

-----------------------------------------------------------------------------

Next ==
    \/ BeginCreate \/ CreateValidate \/ CreateInsert \/ CreatePolled \/ CreateDeferred
    \/ BeginUpdate \/ UpdateRefresh
    \/ BeginExists \/ BeginDelete \/ ExistsZone \/ ExistsGet \/ ExistsReturn
    \/ DeleteExists \/ DeleteSubmit \/ DeletePolled
    \/ PollTick \/ PollTimeout

Spec == Init /\ [][Next]_vars

\* The steps of a running invocation.  The invocation runs synchronously on
\* its caller's goroutine: when every provider call returns and the ticker
\* and the deadline timer of wait.Poll fire, its next step is taken.  Nothing
\* obliges the machine controller to start another invocation.
Step ==
    \/ CreateValidate \/ CreateInsert \/ CreatePolled \/ CreateDeferred
    \/ UpdateRefresh
    \/ ExistsZone \/ ExistsGet \/ ExistsReturn
    \/ DeleteExists \/ DeleteSubmit \/ DeletePolled
    \/ PollTick \/ PollTimeout

FairSpec == Spec /\ WF_vars(Step)

-----------------------------------------------------------------------------
(* Properties *)

ExistsFinished == pc = "exists_done" \/ (pc = "idle" /\ op = "exists")
ExistsResult ==
    IF pc = "idle" THEN [exists |-> ret.exists, err |-> ret.err] ELSE existsRet

\* C1: whenever exists() has finished, it yields (false, nil) exactly when the
\* zone resolved and InstancesGet answered a googleapi 404, (true, nil) exactly
\* when the zone resolved and InstancesGet answered an instance, and in every
\* other case a non-nil error with the boolean false.
ExistsClassifiesProviderAnswer ==
    ExistsFinished =>
        LET notFound == answers.zone = Nil /\ answers.get = GoogleAPIError(404)
            found == answers.zone = Nil /\ answers.get = Nil
        IN  /\ (ExistsResult = [exists |-> FALSE, err |-> Nil]) <=> notFound
            /\ (ExistsResult = [exists |-> TRUE, err |-> Nil]) <=> found
            /\ (~notFound /\ ~found) => (ExistsResult.err # Nil /\ ~ExistsResult.exists)

ExistsReportedNotFound ==
    /\ pc = "idle" /\ op = "exists" /\ ret.returned
    /\ ~ret.exists /\ ret.err = Nil
    /\ answers.get = GoogleAPIError(404)

\* C2: once exists() has answered delete() with (false, nil), the invocation
\* only returns: it issues no InstancesDelete, never enters the operation
\* poller, fetches no operation, and returns nil.
DeleteOfAbsentInstanceIsNoOp ==
    (op = "delete" /\ calls["InstancesGet"] = 1
        /\ existsRet = [exists |-> FALSE, err |-> Nil]) =>
        /\ pc \in {"exists_done", "idle"}
        /\ calls["InstancesDelete"] = 0
        /\ calls["waitUntilOperationCompleted"] = 0
        /\ poll.fetches = 0
        /\ pc = "idle" => (ret.returned /\ ret.err = Nil)

DeleteOfAbsentInstanceReturned ==
    /\ pc = "idle" /\ op = "delete" /\ ret.returned /\ ret.err = Nil
    /\ calls["InstancesGet"] = 1
    /\ existsRet = [exists |-> FALSE, err |-> Nil]

\* C3: the second of two successful update() invocations in a row that read
\* the same instance leaves addresses, provider ID, instance state and
\* instance identifier exactly as the first one wrote them.
UpdateIsIdempotent ==
    [][(pc = "update_refresh" /\ streak' = 2) => status' = status]_vars

UpdatedTwiceOnSameInstance ==
    /\ pc = "idle" /\ op = "update" /\ ret.returned /\ ret.err = Nil
    /\ streak = 2
    /\ Len(status.Addresses) = 3

\* C4: after a successful status refresh the address list is the first
\* interface's internal IP as InternalIP entry, then one ExternalIP entry per
\* access configuration of that interface, in the provider's order.
AddressesMirrorFirstInterface ==
    (pc = "idle" /\ op \in {"create", "update"} /\ refreshErr = Nil) =>
        LET nic == lastSeen.NetworkInterfaces[1]
        IN  /\ Len(status.Addresses) = 1 + Len(nic.AccessConfigs)
            /\ status.Addresses[1] = [Type |-> "InternalIP", Address |-> nic.NetworkIP]
            /\ \A i \in 1..Len(nic.AccessConfigs) :
                status.Addresses[i + 1] =
                    [Type |-> "ExternalIP", Address |-> nic.AccessConfigs[i].NatIP]

RefreshedAfterCreateWithTwoExternalIPs ==
    /\ pc = "idle" /\ op = "create" /\ ret.returned /\ refreshErr = Nil
    /\ Len(lastSeen.NetworkInterfaces) = 2
    /\ Len(status.Addresses) = 3
    /\ status.Addresses[2] # status.Addresses[3]

\* C5 as claimed: no step of an invocation that returns an error changes the
\* status fields.
FailedInvocationLeavesStatusUntouched ==
    [][(ret.err # Nil \/ ret'.err # Nil) => status' = status]_vars

\* C5 as amended: the status fields change only in a refresh step whose
\* InstancesGet answered an instance with at least one network interface, and
\* then all of them are written from that instance; a refresh whose read
\* failed, and every other step, leaves them as they were.
StatusWrittenOnlyFromSuccessfulRead ==
    [][status' # status =>
        /\ pc \in {"create_deferred", "update_refresh"}
        /\ answers'.get = Nil
        /\ refreshErr' = Nil
        /\ Len(lastSeen'.NetworkInterfaces) >= 1
        /\ status'.Addresses[1].Address = lastSeen'.NetworkInterfaces[1].NetworkIP
        /\ status'.InstanceState = <<lastSeen'.Status>>
        /\ status'.InstanceID = <<lastSeen'.Name>>
        /\ status'.ProviderID = <<providerID>>]_vars

FailedRefreshKeptEarlierStatus ==
    /\ pc = "idle" /\ op \in {"create", "update"} /\ ret.returned
    /\ refreshErr # Nil
    /\ status # NoStatus

DeadlineFetch == operationTimeOut \div operationRetryWait + 1
LastFetchTerminalSuccess ==
    poll.err = Nil /\ poll.op.Status = "DONE" /\ ~poll.op.hasError

\* C6 as claimed: when the operation answered non-terminal N times and then
\* terminal success, the poller returns success after N+1 fetches, each fetch
\* exactly one poll interval after the one before (the first one interval
\* after the start).
PollerFetchesEvenlySpaced ==
    (pc = "polled" /\ LastFetchTerminalSuccess) =>
        /\ pollRet.err = Nil
        /\ poll.fetches = poll.nonTerminal + 1
        /\ poll.uneven = {}

\* C6 as amended: the poller returns success exactly when the last fetch was
\* terminal success, after N+1 fetches for N non-terminal answers, and every
\* fetch comes one poll interval after the one before, except the fetch made
\* when the deadline expires after the last tick was delivered (fetch number
\* deadline/interval + 1), which follows at once.
PollerSucceedsAfterNPlusOneFetches ==
    /\ pc = "poll" => poll.fetches = poll.nonTerminal
    /\ pc = "polled" =>
        /\ LastFetchTerminalSuccess <=> pollRet.err = Nil
        /\ LastFetchTerminalSuccess =>
            /\ poll.fetches = poll.nonTerminal + 1
            /\ poll.uneven \subseteq {DeadlineFetch}
            /\ poll.uneven = {} => poll.elapsed = poll.fetches * operationRetryWait

PollerSucceededOnFourthFetch ==
    /\ pc = "polled" /\ pollRet.err = Nil
    /\ poll.nonTerminal = 3 /\ poll.fetches = 4
    /\ poll.elapsed = 4 * operationRetryWait

\* C7 as claimed: the poller never makes more than deadline/interval fetches.
PollerStopsAtDeadlineOverInterval ==
    poll.fetches <= operationTimeOut \div operationRetryWait

\* C7 as amended: an operation that stays non-terminal makes the poller fail
\* with ErrWaitTimeout at the deadline after deadline/interval or
\* deadline/interval + 1 fetches, and no poll ever makes more than
\* deadline/interval + 1 fetches.
PollerTimesOutWithinOneExtraFetch ==
    /\ poll.fetches <= DeadlineFetch
    /\ pc = "polled" =>
        /\ (poll.err = Nil /\ poll.op.Status # "DONE") <=> pollRet.err = ErrWaitTimeout
        /\ pollRet.err = ErrWaitTimeout =>
            /\ poll.fetches \in {DeadlineFetch - 1, DeadlineFetch}
            /\ poll.elapsed = operationTimeOut

PollerTimedOutAfterExtraFetch ==
    /\ pc = "polled" /\ pollRet.err = ErrWaitTimeout
    /\ poll.fetches = DeadlineFetch
    /\ poll.nonTerminal = DeadlineFetch

\* C8: polling goes on only after a clean non-terminal fetch; a fetch error
\* ends it with that error; a DONE operation with reported errors ends it with
\* an aggregate holding every reported message, in order; a DONE operation
\* with no error ends it with success.
PollerPropagatesErrors ==
    /\ pc = "poll" => (poll.err = Nil /\ poll.op.Status # "DONE")
    /\ pc = "polled" =>
        /\ poll.err # Nil => pollRet.err = poll.err
        /\ (poll.err = Nil /\ poll.op.Status = "DONE" /\ poll.op.hasError) =>
            /\ pollRet.err.kind = "errorf"
            /\ Len(pollRet.err.args) = Len(poll.op.Errors)
            /\ \A i \in 1..Len(poll.op.Errors) :
                pollRet.err.args[i] = Errorf("%s", <<poll.op.Errors[i]>>)
        /\ (poll.err = Nil /\ poll.op.Status = "DONE" /\ ~poll.op.hasError) =>
            pollRet.err = Nil

PollerReportedTwoErrors ==
    /\ pc = "polled"
    /\ poll.op.Status = "DONE" /\ Len(poll.op.Errors) = 2
    /\ poll.op.Errors[1] # poll.op.Errors[2]
    /\ pollRet.err.kind = "errorf"

CreatedEmitted == \E i \in 1..Len(events) : events[i].reason = "Created"

\* C10: create() returns an error whenever polling the insert operation
\* failed; it returns nil exactly when the insert was accepted and its poll
\* succeeded; and the Created event is recorded, once, exactly when create()
\* returns nil.
CreatedEventIffCreateSucceeded ==
    op = "create" =>
        /\ Len(events) <= 1
        /\ pc \notin {"create_deferred", "idle"} => ~CreatedEmitted
        /\ pc \in {"create_deferred", "idle"} =>
            /\ pollRet.err # Nil => ret.err # Nil
            /\ ret.err = Nil <=>
                (calls["waitUntilOperationCompleted"] = 1 /\ pollRet.err = Nil)
            /\ CreatedEmitted <=> ret.err = Nil
        /\ pc = "idle" => ret.returned

CreateFailedOnPollWithoutEvent ==
    /\ pc = "idle" /\ op = "create" /\ ret.returned
    /\ pollRet.err = ErrWaitTimeout
    /\ ret.err # Nil
    /\ ~CreatedEmitted

-----------------------------------------------------------------------------
(* create(): the deferred refresh *)

\* C11: every return of create(), after success as after a failed operation
\* poll, is made by the step that runs the deferred status refresh: that step
\* issues InstancesGet, and the error create() returns is the one it had
\* settled before the refresh, whatever the refresh answered.
CreateRefreshAttemptedAndSwallowed ==
    [][(op' = "create" /\ pc # "idle" /\ pc' = "idle") =>
        /\ pc = "create_deferred"
        /\ calls'["InstancesGet"] = calls["InstancesGet"] + 1
        /\ ret'.returned
        /\ ret'.err = ret.err]_vars

CreateSucceededThoughRefreshFailed ==
    /\ pc = "idle"
    /\ op = "create"
    /\ ret.returned
    /\ ret.err = Nil
    /\ refreshErr # Nil

-----------------------------------------------------------------------------
(* delete() of an existing instance *)

DeleteOutcome ==
    op = "delete" =>
        /\ events = <<>>
        /\ calls["InstancesDelete"] <= 1
        /\ pc \in {"poll", "polled"} =>
                calls["InstancesDelete"] = 1 /\ calls["waitUntilOperationCompleted"] = 1
        /\ (pc = "polled" /\ pollRet.err = Nil) =>
                (poll.err = Nil /\ poll.op.Status = "DONE" /\ ~poll.op.hasError)
        /\ (pc = "idle" /\ existsRet = [exists |-> TRUE, err |-> Nil]) =>
                /\ calls["InstancesDelete"] = 1
                /\ ret.err = Nil <=>
                        (calls["waitUntilOperationCompleted"] = 1 /\ pollRet.err = Nil)

\* C12: delete() of an instance exists() found submits InstancesDelete exactly
\* once, enters the poller only after the request was accepted, returns nil
\* only when the poller ended on a terminal operation without error and an
\* error when the submit or the poll failed; no step of delete() changes the
\* status and no event is recorded.
DeleteSubmitsOncePollsAndKeepsStatus ==
    /\ []DeleteOutcome
    /\ [][op' = "delete" => status' = status]_vars

DeletedExistingInstance ==
    /\ pc = "idle"
    /\ op = "delete"
    /\ existsRet.exists
    /\ ret.err = Nil
    /\ calls["InstancesDelete"] = 1
    /\ status # NoStatus

-----------------------------------------------------------------------------
(* exists(): the zone check *)

ZoneFailed == answers.zone \notin {Unasked, Nil}

\* C13: in exists() (also when delete() calls it) InstancesGet is issued only
\* after ZonesGet succeeded; when ZonesGet failed, with a 404 as with any other
\* error, exists() yields false with a non-nil error and InstancesGet is never
\* issued, so (false, nil) is never the answer for a zone that was not found.
ZoneCheckedBeforeInstance ==
    op \in {"exists", "delete"} =>
        /\ calls["InstancesGet"] > 0 => answers.zone = Nil
        /\ ZoneFailed =>
            /\ calls["InstancesGet"] = 0
            /\ pc \in {"exists_done", "idle"}
            /\ ~existsRet.exists
            /\ existsRet.err # Nil
            /\ pc = "idle" => (~ret.exists /\ ret.err # Nil)

ExistsFailedOnZoneNotFound ==
    /\ pc = "idle"
    /\ op = "exists"
    /\ answers.zone = GoogleAPIError(404)
    /\ ret.returned
    /\ ret.err # Nil

-----------------------------------------------------------------------------
(* update(): failures *)

\* C17: update() returns nil only when InstancesGet succeeded and the instance
\* read has at least one network interface; when the fetch failed, or the
\* instance has no network interface, it returns an error and the addresses,
\* instance state, instance identifier and provider ID stay as they were.
UpdateFailsWithoutWriting ==
    [][pc = "update_refresh" =>
        /\ ret'.returned
        /\ answers'.get # Nil => ret'.err # Nil
        /\ ret'.err = Nil =>
                (answers'.get = Nil /\ Len(lastSeen'.NetworkInterfaces) >= 1)
        /\ ret'.err # Nil => status' = status]_vars

UpdateFailedOnInstanceWithoutInterface ==
    /\ pc = "idle"
    /\ op = "update"
    /\ answers.get = Nil
    /\ ret.err = Errorf("could not find network interfaces for instance", <<machineName>>)
    /\ status # NoStatus

-----------------------------------------------------------------------------
(* The identity fields after a refresh *)

\* C18: after a successful status refresh (update(), or the refresh create()
\* defers) the provider ID is the scope's provider ID, the instance state is
\* the status of the instance the provider returned and the instance ID is
\* that instance's name.
RefreshWritesIdentity ==
    (pc = "idle" /\ op \in {"create", "update"} /\ ret.returned /\ refreshErr = Nil) =>
        /\ status.ProviderID = <<providerID>>
        /\ status.InstanceState = <<lastSeen.Status>>
        /\ status.InstanceID = <<lastSeen.Name>>

RefreshedRunningInstance ==
    /\ pc = "idle"
    /\ op = "update"
    /\ ret.returned
    /\ refreshErr = Nil
    /\ lastSeen.Status = "RUNNING"
    /\ status.InstanceID = <<machineName>>
    /\ status.ProviderID = <<providerID>>

-----------------------------------------------------------------------------
(* The actuator's scope *)

\* C14: an invocation of Create or Update whose scope was built has called
\* scope.Close() exactly once when it has returned, whatever the reconciler
\* returned, and not before; Exists and Delete never call it; and when
\* newMachineScope failed the entry point returned that failure at once: no
\* reconciler operation ran, no call was issued and the scope was not closed.
ScopeClosedByCreateAndUpdateOnly ==
    /\ scope.err # Nil =>
        /\ pc = "idle"
        /\ op = "none"
        /\ calls = NoCalls
        /\ events = <<>>
        /\ scope.closed = 0
        /\ ret = [returned |-> TRUE, exists |-> FALSE,
                  err |-> Errorf(scopeFailFmt, <<machineName, scope.err>>)]
    /\ scope.err = Nil => op = scope.entry
    /\ scope.entry \in {"exists", "delete"} => scope.closed = 0
    /\ (scope.entry \in {"create", "update"} /\ scope.err = Nil) =>
            scope.closed = (IF pc = "idle" THEN 1 ELSE 0)

FailedCreateClosedScope ==
    /\ pc = "idle"
    /\ scope.entry = "create"
    /\ scope.err = Nil
    /\ ret.err # Nil
    /\ scope.closed = 1

-----------------------------------------------------------------------------
(* The instance descriptor create() submits *)

\* C15: the metadata items of the descriptor create() hands to InstancesInsert
\* are one item with key "user-data" followed by the spec's metadata pairs in
\* the spec's order; without a UserDataSecret reference the value of that
\* first item is the empty string, and the item is there all the same.
MetadataStartsWithUserData ==
    pc = "create_insert" =>
        LET items == instance.Metadata.Items
        IN  /\ Len(items) = Len(providerSpec.Metadata) + 1
            /\ items[1].Key = "user-data"
            /\ \A i \in 1..Len(providerSpec.Metadata) :
                    items[i + 1] = [Key |-> providerSpec.Metadata[i].Key,
                                    Value |-> providerSpec.Metadata[i].Value]
            /\ ~providerSpec.UserDataSecret => items[1].Value = <<"">>

DescriptorWithoutSecretAndTwoPairs ==
    /\ pc = "create_insert"
    /\ ~providerSpec.UserDataSecret
    /\ Len(providerSpec.Metadata) = 2
    /\ providerSpec.Metadata[1].Key = "role"
    /\ providerSpec.Metadata[2].Key = "user-data"
    /\ Len(instance.Metadata.Items) = 3

\* C16: the descriptor create() hands to InstancesInsert has one attached disk
\* per spec disk, in the spec's order and with that disk's boot and
\* auto-delete flags, and one network interface per spec network interface,
\* each with exactly one access configuration, the default one.
DescriptorMirrorsDisksAndInterfaces ==
    pc = "create_insert" =>
        /\ Len(instance.Disks) = Len(providerSpec.Disks)
        /\ \A i \in 1..Len(providerSpec.Disks) :
                /\ instance.Disks[i].Boot = providerSpec.Disks[i].Boot
                /\ instance.Disks[i].AutoDelete = providerSpec.Disks[i].AutoDelete
                /\ instance.Disks[i].InitializeParams.SourceImage = providerSpec.Disks[i].Image
        /\ Len(instance.NetworkInterfaces) = Len(providerSpec.NetworkInterfaces)
        /\ \A i \in 1..Len(providerSpec.NetworkInterfaces) :
                instance.NetworkInterfaces[i].AccessConfigs = <<DefaultAccessConfig>>

DescriptorWithTwoDisksAndOneInterface ==
    /\ pc = "create_insert"
    /\ Len(providerSpec.Disks) = 2
    /\ ~providerSpec.Disks[1].Boot
    /\ providerSpec.Disks[2].Boot
    /\ Len(providerSpec.NetworkInterfaces) = 1
    /\ Len(instance.Disks) = 2
    /\ Len(instance.NetworkInterfaces) = 1

-----------------------------------------------------------------------------
(* create(): what precedes the insert *)

UserDataLookupFailed ==
    /\ answers.secret # Unasked
    /\ answers.secret.err # Nil \/ ~answers.secret.hasKey

\* C19: in create() the insert request is issued, and its operation polled,
\* only when validation passed and the user data lookup succeeded (or no secret
\* is referenced); when validation failed, the secret could not be fetched or
\* it has no userData key, create() goes straight to its return with an error:
\* no InstancesInsert, no operation poll, no descriptor submitted.
InsertOnlyAfterValidationAndUserData ==
    op = "create" =>
        /\ (calls["InstancesInsert"] > 0 \/ calls["waitUntilOperationCompleted"] > 0
                \/ pc \in {"create_insert", "poll", "polled"}) =>
            (validateMachine = Nil /\ ~UserDataLookupFailed)
        /\ (pc # "create_validate" /\ (validateMachine # Nil \/ UserDataLookupFailed)) =>
            /\ pc \in {"create_deferred", "idle"}
            /\ ret.err # Nil
            /\ calls["InstancesInsert"] = 0
            /\ calls["waitUntilOperationCompleted"] = 0
            /\ poll = NoPoll
            /\ instance = NoDescriptor

CreateFailedOnSecretWithoutKey ==
    /\ pc = "idle"
    /\ op = "create"
    /\ answers.secret = [err |-> Nil, hasKey |-> FALSE]
    /\ ret.returned
    /\ ret.err # Nil
    /\ calls["InstancesInsert"] = 0

-----------------------------------------------------------------------------
(* Order and number of the provider calls *)

\* C20: within one invocation no provider call is issued twice: create()
\* issues at most one InstancesInsert, delete() at most one InstancesDelete;
\* the poller runs only for a request the provider accepted; and delete()
\* issues InstancesDelete only after ZonesGet and InstancesGet of the same
\* invocation both answered without error.
CallsSequentialWithoutRetry ==
    /\ \A c \in CallNames : calls[c] <= 1
    /\ calls["InstancesInsert"] > 0 => op = "create"
    /\ calls["InstancesDelete"] > 0 => op = "delete"
    /\ (pc \in {"poll", "polled"} \/ poll.fetches > 0
            \/ calls["waitUntilOperationCompleted"] > 0) =>
        /\ answers.submit = Nil
        /\ calls["waitUntilOperationCompleted"] = 1
        /\ calls[IF op = "create" THEN "InstancesInsert" ELSE "InstancesDelete"] = 1
    /\ (pc = "delete_submit" \/ calls["InstancesDelete"] > 0) =>
        /\ answers.zone = Nil
        /\ answers.get = Nil
        /\ calls["ZonesGet"] = 1
        /\ calls["InstancesGet"] = 1

DeletePollingAcceptedRequest ==
    /\ pc = "poll"
    /\ op = "delete"
    /\ poll.fetches = 2
    /\ calls["InstancesDelete"] = 1
    /\ answers.submit = Nil

-----------------------------------------------------------------------------
(* Termination *)

\* C21: when every provider call returns, the poller never makes more than
\* operationTimeOut / operationRetryWait + 1 fetches and always ends, with
\* success, with the error of a fetch or of the operation, or with
\* ErrWaitTimeout; and every invocation that started returns to its caller.
EveryInvocationTerminates ==
    /\ [](poll.fetches <= DeadlineFetch)
    /\ [](pc = "polled" =>
            (pollRet.err = Nil \/ pollRet.err = ErrWaitTimeout \/ pollRet.err = poll.err
                \/ (pollRet.err.kind = "errorf" /\ poll.op.hasError)))
    /\ (pc = "poll") ~> (pc = "polled")
    /\ (pc # "idle") ~> (pc = "idle" /\ ret.returned)

DeleteReturnedAfterTimeout ==
    /\ pc = "idle"
    /\ op = "delete"
    /\ ret.returned
    /\ ret.err # Nil
    /\ pollRet.err = ErrWaitTimeout

====
